---- MODULE Spec2Model ----
(***************************************************************************)
(* Agentic honeypot: the scorer (detector.py), the extractor               *)
(* (extractor.py), the session store (session_store.py), the reply         *)
(* selector (agent.py) and the /honeypot/message handler (main.py).        *)
(*                                                                         *)
(* Numbers.  Confidences and score weights are floats in the source; here  *)
(* they are integers in hundredths (0.15 is 15, 1.0 is 100).  Time is in   *)
(* seconds, as time.time() is.  engagementScore is an exact fraction.      *)
(*                                                                         *)
(* Texts.  A text is a string.  What the regular expressions and substring *)
(* tests of the source find in a text is tabulated per sample text in      *)
(* Features (computed by running the source's patterns on each text);      *)
(* everything the source does with those matches (weights, pooling,        *)
(* de-duplication, merging, thresholds) is modelled as the code does it.   *)
(*                                                                         *)
(* Messages.  A message dict is [sender, text]; its timestamp is carried   *)
(* by the source and never read by it, and is left out.                    *)
(***************************************************************************)
EXTENDS Integers, Sequences, FiniteSets, Bags, TLC

VARIABLES
    sessions,    \* SessionManager.sessions: sessionId -> session dict
    now,         \* the value time.time() returns
    hashSeed,    \* the process's string-hash seed: fixes the order of list(set(..))
    callbacks,   \* bag of [sessionId, startTime]: the POSTs made to GUVI_CALLBACK
    call,        \* the last operation invoked, with its arguments
    posted,      \* the POST that operation made: payload and outcome, or NoPost
    response,    \* the HTTP response of that operation, or NoResponse
    tasks        \* the handler coroutines on the event loop: task id -> its position

vars == <<sessions, now, hashSeed, callbacks, call, posted, response, tasks>>

-----------------------------------------------------------------------------
(* Bounds of the model *)

MaxHist == 5      \* longest conversationHistory a request supplies
MaxMsgs == 2      \* messages counted per session (scammer + agent counters)
MaxTicks == 1     \* times the clock advances between operations

MaxKeywordHits == 3   \* SCAM_KEYWORDS found in a text
MaxPatternHits == 2   \* patterns of one family found in a text

MaxAgentHist == 8     \* longest history handed to the reply selector alone
MaxDraw == 7          \* largest value the random source yields there

MaxTurns == 9         \* counted messages of the long conversation

(* Program constants *)

session_timeout == 3600
SCAM_THRESHOLD == 40
KEYWORD_WEIGHT == 15
URGENCY_WEIGHT == 25
FINANCIAL_WEIGHT == 30
PHISHING_WEIGHT == 20
URL_WEIGHT == 15
PHONE_WEIGHT == 10
MAX_SCORE == 100
RISK_HIGH == 80
RISK_MEDIUM == 60
RISK_LOW == 40
MAX_STAGE == 5
CALLBACK_MIN_MESSAGES == 8
CALLBACK_MIN_CONFIDENCE == 80
CALLBACK_MIN_MESSAGES_CONFIDENT == 4

-----------------------------------------------------------------------------
(* Helpers on sequences and dicts *)

Range(s) == {s[i] : i \in 1..Len(s)}

Min(a, b) == IF a <= b THEN a ELSE b
Max(a, b) == IF a >= b THEN a ELSE b

Reverse(s) == [i \in 1..Len(s) |-> s[Len(s) + 1 - i]]

\* d[k] = v, creating the key when absent
Put(d, k, v) == [x \in DOMAIN d \cup {k} |-> IF x = k THEN v ELSE d[x]]

\* first occurrences of s, in order
RECURSIVE Distinct(_)
Distinct(s) ==
    IF s = <<>> THEN <<>>
    ELSE LET d == Distinct(SubSeq(s, 1, Len(s) - 1))
             x == s[Len(s)]
         IN  IF x \in Range(d) THEN d ELSE Append(d, x)

\* list(set(s)): the distinct values of s, in the order the process's hash
\* seed gives (one fixed order per process; two of them are modelled)
ListSet(s, seed) == IF seed = 0 THEN Distinct(s) ELSE Reverse(Distinct(s))

\* mutant: existing.extend(cand)
ExtendNewAllowDup(existing, cand) == existing \o cand

\* existing.extend([x for x in cand if x not in existing]): the filter reads
\* `existing` as it was before the extend
ExtendNew(existing, cand) ==
    existing \o SelectSeq(cand, LAMBDA x : x \notin Range(existing))

-----------------------------------------------------------------------------
(* Sample texts and what the source's patterns find in them *)

tBenign == "Hi, how are you doing today?"
tScamA == "URGENT: Your account will be blocked. Verify immediately."
tPay == "Verify KYC: pay user@paytm, call +919876543210, card 4111-1111-1111-1111"
tHello == "Hello? Who is this?"
tLink == "Click the link and transfer money from your bank by UPI"

Texts == {tBenign, tScamA, tPay}

NoFeatures ==
    [kw |-> <<>>, urgency |-> 0, financial |-> 0, phishing |-> 0,
     url |-> FALSE, phone |-> FALSE,
     bank |-> FALSE, upiWord |-> FALSE, kyc |-> FALSE, urgentWord |-> FALSE,
     link |-> FALSE, money |-> FALSE,
     upi |-> <<>>, phones |-> <<>>, urls |-> <<>>, banks |-> <<>>,
     cards |-> <<>>, susp |-> <<>>]

\* kw: the SCAM_KEYWORDS that are substrings of text.lower(), in list order;
\* urgency, financial, phishing: how many patterns of the family re.search
\* finds; url, phone: the two single searches; upi .. cards: the re.findall
\* matches of the family's patterns, pooled in pattern order; susp: the
\* suspicious_words that are substrings, in list order; bank .. money: the
\* substring tests of the reply selector's context analysis.
Features(t) ==
    CASE t = tScamA ->
           [NoFeatures EXCEPT
              !.kw = <<"blocked", "verify", "urgent", "account", "immediately">>,
              !.urgency = 2,
              !.urgentWord = TRUE,
              !.susp = <<"urgent", "immediate", "verify", "blocked">>]
      [] t = tPay ->
           [NoFeatures EXCEPT
              !.kw = <<"verify", "kyc">>,
              !.phone = TRUE,
              !.kyc = TRUE,
              !.upi = <<"user@paytm", "user@paytm">>,
              !.phones = <<"+919876543210", "+919876543210", "+919876543210">>,
              !.banks = <<"919876543210">>,
              !.cards = <<"4111-1111-1111-1111", "card 4111">>,
              !.susp = <<"verify">>]
      [] t = tLink ->
           [NoFeatures EXCEPT
              !.kw = <<"upi", "click", "bank">>,
              !.phishing = 1,
              !.bank = TRUE,
              !.upiWord = TRUE,
              !.link = TRUE,
              !.money = TRUE,
              !.susp = <<"click", "transfer">>]
      [] t \in {tBenign, tHello} -> NoFeatures

\* n copies of tag
Repeat(tag, n) == [i \in 1..n |-> tag]

-----------------------------------------------------------------------------
(* detector.py *)

SCAM_KEYWORDS ==
    <<"blocked", "verify", "urgent", "upi", "account", "suspended", "kyc",
      "click", "bank", "immediately", "limited time", "offer expires", "prize",
      "winner", "lottery", "congratulations", "payment required", "act now",
      "don't miss", "exclusive", "bonus", "reward", "claim", "expire",
      "suspend", "freeze", "debit card", "credit card", "cvv", "otp", "pin">>

\* mutant: the score is not capped
score_hits_uncapped(f) ==
    LET score == Len(f.kw) * KEYWORD_WEIGHT
                 + f.urgency * URGENCY_WEIGHT
                 + f.financial * FINANCIAL_WEIGHT
                 + f.phishing * PHISHING_WEIGHT
                 + (IF f.url THEN URL_WEIGHT ELSE 0)
                 + (IF f.phone THEN PHONE_WEIGHT ELSE 0)
    IN  [is_scam |-> score >= SCAM_THRESHOLD,
         keywords |-> f.kw,
         confidence |-> score]

\* lines 36-76 on what the searches found. Scores are in hundredths; the
\* source adds floats, whose sum can fall an ulp short of the decimal sum
\* (0.7999999999999999 for 0.8), never across 0.4 or 1.0.
score_hits(f) ==
    LET score == Len(f.kw) * KEYWORD_WEIGHT
                 + f.urgency * URGENCY_WEIGHT
                 + f.financial * FINANCIAL_WEIGHT
                 + f.phishing * PHISHING_WEIGHT
                 + (IF f.url THEN URL_WEIGHT ELSE 0)
                 + (IF f.phone THEN PHONE_WEIGHT ELSE 0)
        detected_keywords ==
            f.kw \o Repeat("urgency_tactic", f.urgency)
                 \o Repeat("financial_threat", f.financial)
                 \o Repeat("phishing_attempt", f.phishing)
                 \o (IF f.url THEN <<"suspicious_link">> ELSE <<>>)
                 \o (IF f.phone THEN <<"phone_number">> ELSE <<>>)
        confidence_score == Min(score, MAX_SCORE)
    IN  [is_scam |-> confidence_score >= SCAM_THRESHOLD,
         keywords |-> detected_keywords,
         confidence |-> confidence_score]

calculate_scam_score(text) == score_hits(Features(text))

-----------------------------------------------------------------------------
(* extractor.py *)

extract_upi_ids(text, seed) == ListSet(Features(text).upi, seed)
extract_phone_numbers(text, seed) == ListSet(Features(text).phones, seed)
extract_urls(text, seed) == ListSet(Features(text).urls, seed)
extract_bank_accounts(text, seed) == ListSet(Features(text).banks, seed)
extract_card_numbers(text, seed) == ListSet(Features(text).cards, seed)
extract_suspicious_keywords(text, seed) == ListSet(Features(text).susp, seed)

\* mutant: a new session starts with a keyword recorded
SeededIntelligence ==
    [bankAccounts |-> <<>>, upiIds |-> <<>>, phishingLinks |-> <<>>,
     phoneNumbers |-> <<>>, suspiciousKeywords |-> <<"urgent">>]

EmptyIntelligence ==
    [bankAccounts |-> <<>>, upiIds |-> <<>>, phishingLinks |-> <<>>,
     phoneNumbers |-> <<>>, suspiciousKeywords |-> <<>>]

\* mutant: each collection is replaced by what the text yields
extract_intelligence_replace(text, existing_intel, seed) ==
    [upiIds |-> extract_upi_ids(text, seed),
     phoneNumbers |-> extract_phone_numbers(text, seed),
     phishingLinks |-> extract_urls(text, seed),
     bankAccounts |-> extract_bank_accounts(text, seed),
     suspiciousKeywords |-> extract_suspicious_keywords(text, seed)]

\* mutant: the matches are appended without the membership filter
extract_intelligence_nofilter(text, existing_intel, seed) ==
    [upiIds |-> ExtendNewAllowDup(existing_intel.upiIds, extract_upi_ids(text, seed)),
     phoneNumbers |-> ExtendNewAllowDup(existing_intel.phoneNumbers, extract_phone_numbers(text, seed)),
     phishingLinks |-> ExtendNewAllowDup(existing_intel.phishingLinks, extract_urls(text, seed)),
     bankAccounts |-> ExtendNewAllowDup(existing_intel.bankAccounts, extract_bank_accounts(text, seed)),
     suspiciousKeywords |-> ExtendNewAllowDup(existing_intel.suspiciousKeywords, extract_suspicious_keywords(text, seed))]
\* card_numbers is computed (line 105) and merged into no collection
extract_intelligence(text, existing_intel, seed) ==
    [upiIds |-> ExtendNew(existing_intel.upiIds, extract_upi_ids(text, seed)),
     phoneNumbers |-> ExtendNew(existing_intel.phoneNumbers, extract_phone_numbers(text, seed)),
     phishingLinks |-> ExtendNew(existing_intel.phishingLinks, extract_urls(text, seed)),
     bankAccounts |-> ExtendNew(existing_intel.bankAccounts, extract_bank_accounts(text, seed)),
     suspiciousKeywords |-> ExtendNew(existing_intel.suspiciousKeywords, extract_suspicious_keywords(text, seed))]

-----------------------------------------------------------------------------
(* session_store.py *)

\* a fraction num/den, den > 0
Frac(n, d) == [num |-> n, den |-> d]

NewSession(session_id, current_time) ==
    [sessionId |-> session_id,
     scamDetected |-> FALSE,
     scamConfidence |-> 0,
     messages |-> <<>>,
     conversationHistory |-> <<>>,
     sameList |-> FALSE,   \* messages and conversationHistory are one list object
     intelligence |-> EmptyIntelligence,
     agentPersona |-> "None",
     conversationStage |-> 0,
     startTime |-> current_time,
     lastActivity |-> current_time,
     completed |-> FALSE,
     totalMessagesExchanged |-> 0,
     scammerMessagesCount |-> 0,
     agentMessagesCount |-> 0,
     engagementScore |-> Frac(0, 1),
     extractedPatterns |-> <<>>,
     riskLevel |-> "low"]

\* mutant: a session idle for exactly the timeout is expired
Expired_at_timeout(session, current_time) ==
    current_time - session.lastActivity >= session_timeout

Expired(session, current_time) ==
    current_time - session.lastActivity > session_timeout

cleanup_expired_sessions(store, current_time) ==
    [k \in {x \in DOMAIN store : ~Expired(store[x], current_time)} |-> store[k]]

\* mutant: the session dict is rebuilt on every call
ensure_session_always(store, session_id, current_time) ==
    Put(store, session_id, NewSession(session_id, current_time))

\* lines 20-45: create the session when the id is not in the store
ensure_session(store, session_id, current_time) ==
    IF session_id \in DOMAIN store
    THEN store
    ELSE Put(store, session_id, NewSession(session_id, current_time))

\* mutant: the access refreshes every session of the store
touch_all(store, session_id, current_time) ==
    [k \in DOMAIN store |-> [store[k] EXCEPT !.lastActivity = current_time]]

\* line 48
touch(store, session_id, current_time) ==
    [store EXCEPT ![session_id].lastActivity = current_time]

\* the store after get_session; the session it returns is the entry of session_id
get_session(store, session_id, current_time) ==
    touch(ensure_session(cleanup_expired_sessions(store, current_time),
                         session_id, current_time),
          session_id, current_time)

calculate_risk_level(confidence) ==
    IF confidence >= RISK_HIGH THEN "high"
    ELSE IF confidence >= RISK_MEDIUM THEN "medium"
    ELSE IF confidence >= RISK_LOW THEN "low"
    ELSE "very_low"

NonEmptyCollections(intel) ==
    Cardinality({k \in DOMAIN intel : intel[k] # <<>>})

\* (base_score + scammer_ratio + intelligence_score) / 3, exactly
calculate_engagement_score(session) ==
    LET total == Max(session.totalMessagesExchanged, 1)
        base_score == Min(session.totalMessagesExchanged * 10, 100)
        intelligence_score == Min(NonEmptyCollections(session.intelligence) * 20, 100)
    IN  Frac((base_score + intelligence_score) * total
               + 100 * session.scammerMessagesCount,
             300 * total)

\* lines 59-65: the two appends; they land on one list when messages and
\* conversationHistory are the same object (the copy appended to
\* conversationHistory has the message's sender and text)
append_message(session, message) ==
    IF session.sameList
    THEN [session EXCEPT !.messages = @ \o <<message, message>>,
                         !.conversationHistory = @ \o <<message, message>>]
    ELSE [session EXCEPT !.messages = Append(@, message),
                         !.conversationHistory = Append(@, message)]

\* lines 67-72
update_counters(session, message) ==
    [session EXCEPT
       !.totalMessagesExchanged = Len(session.messages),
       !.scammerMessagesCount = IF message.sender = "scammer" THEN @ + 1 ELSE @,
       !.agentMessagesCount = IF message.sender = "user" THEN @ + 1 ELSE @]

\* mutant: the confidence of the last fraud turn is kept, not the maximum
update_scam_status_last(session, scam_detected, confidence) ==
    IF scam_detected
    THEN [session EXCEPT
            !.scamDetected = TRUE,
            !.scamConfidence = confidence,
            !.riskLevel = calculate_risk_level(confidence)]
    ELSE session

\* mutant: the risk level is that of the session's highest confidence
update_scam_status_risk_of_max(session, scam_detected, confidence) ==
    IF scam_detected
    THEN [session EXCEPT
            !.scamDetected = TRUE,
            !.scamConfidence = Max(@, confidence),
            !.riskLevel = calculate_risk_level(Max(session.scamConfidence, confidence))]
    ELSE session

\* mutant: the flag is assigned from the turn's classification
update_scam_status_assign(session, scam_detected, confidence) ==
    IF scam_detected
    THEN [session EXCEPT
            !.scamDetected = TRUE,
            !.scamConfidence = Max(@, confidence),
            !.riskLevel = calculate_risk_level(confidence)]
    ELSE [session EXCEPT !.scamDetected = FALSE]

\* mutant: the confidence and the risk level are recorded, the flag is not
update_scam_status_unflagged(session, scam_detected, confidence) ==
    IF scam_detected
    THEN [session EXCEPT
            !.scamConfidence = Max(@, confidence),
            !.riskLevel = calculate_risk_level(confidence)]
    ELSE session

\* lines 74-78
update_scam_status(session, scam_detected, confidence) ==
    IF scam_detected
    THEN [session EXCEPT
            !.scamDetected = TRUE,
            !.scamConfidence = Max(@, confidence),
            !.riskLevel = calculate_risk_level(confidence)]
    ELSE session

\* line 81
update_stage(session) ==
    [session EXCEPT
       !.conversationStage = Min(session.totalMessagesExchanged \div 2, MAX_STAGE)]

\* line 84
update_engagement(session) ==
    [session EXCEPT !.engagementScore = calculate_engagement_score(session)]

\* the session dict after update_session's body, given the dict get_session returned
UpdatedSession(session, message, scam_detected, confidence) ==
    update_engagement(
        update_stage(
            update_scam_status(
                update_counters(append_message(session, message), message),
                scam_detected, confidence)))

update_session(store, session_id, message, scam_detected, confidence, current_time) ==
    [get_session(store, session_id, current_time) EXCEPT
       ![session_id] = UpdatedSession(@, message, scam_detected, confidence)]

\* engagementScore > 0.7 and < 0.3
generate_agent_notes(session) ==
    LET e == session.engagementScore
    IN  (IF session.scamDetected THEN <<"Scam detected">> ELSE <<>>)
        \o (IF session.intelligence.suspiciousKeywords # <<>>
            THEN <<"Used keywords">> ELSE <<>>)
        \o (IF session.intelligence.upiIds # <<>>
            THEN <<"Requested UPI payments">> ELSE <<>>)
        \o (IF session.intelligence.phishingLinks # <<>>
            THEN <<"Shared suspicious links">> ELSE <<>>)
        \o (IF session.intelligence.phoneNumbers # <<>>
            THEN <<"Provided contact numbers">> ELSE <<>>)
        \o (IF e.num * 10 > 7 * e.den
            THEN <<"High engagement - persistent scammer">>
            ELSE IF e.num * 10 < 3 * e.den
                 THEN <<"Low engagement - quick exit">> ELSE <<>>)

\* lines 119-129, on the session get_session returned
SessionSummary(session) ==
    [sessionId |-> session.sessionId,
     scamDetected |-> session.scamDetected,
     totalMessagesExchanged |-> session.totalMessagesExchanged,
     scamConfidence |-> session.scamConfidence,
     riskLevel |-> session.riskLevel,
     engagementScore |-> session.engagementScore,
     extractedIntelligence |-> session.intelligence,
     conversationDuration |-> session.lastActivity - session.startTime,
     agentNotes |-> generate_agent_notes(session)]

\* the summary get_session_summary returns; the store it leaves is get_session's
get_session_summary(store, session_id, current_time) ==
    SessionSummary(get_session(store, session_id, current_time)[session_id])

\* mutant: a session is created, completed, for an id the store lacks
mark_completed_creating(store, session_id) ==
    IF session_id \in DOMAIN store
    THEN [store EXCEPT ![session_id].completed = TRUE]
    ELSE Put(store, session_id, [NewSession(session_id, 0) EXCEPT !.completed = TRUE])

\* mutant: the flag is flipped
mark_completed_toggle(store, session_id) ==
    IF session_id \in DOMAIN store
    THEN [store EXCEPT ![session_id].completed = ~@]
    ELSE store

\* mutant: the flag is not set
mark_completed_skipped(store, session_id) == store

mark_completed(store, session_id) ==
    IF session_id \in DOMAIN store
    THEN [store EXCEPT ![session_id].completed = TRUE]
    ELSE store

-----------------------------------------------------------------------------
(* agent.py *)

initial_responses ==
    <<"Hello? Who is this?",
      "I'm not sure I understand. What is this about?",
      "Can you tell me who you are and why you're contacting me?",
      "Sorry, I think you might have the wrong person.">>

\* random.choice(responses), the random source yielding draw
Choice(responses, draw) == responses[(draw % Len(responses)) + 1]

\* mutant: the flags are derived from the whole history
analyze_context_all(history) ==
    LET recent_messages == {Features(history[i].text) : i \in 1..Len(history)}
    IN  [mentions_bank |-> \E m \in recent_messages : m.bank,
         mentions_upi |-> \E m \in recent_messages : m.upiWord,
         mentions_kyc |-> \E m \in recent_messages : m.kyc,
         mentions_urgent |-> \E m \in recent_messages : m.urgentWord,
         mentions_link |-> \E m \in recent_messages : m.link,
         mentions_money |-> \E m \in recent_messages : m.money,
         conversation_stage |-> Min(Len(history) \div 2, 4)]

analyze_context(history) ==
    LET from == Max(Len(history) - 2, 1)
        recent_messages == {Features(history[i].text) : i \in from..Len(history)}
    IN  [mentions_bank |-> \E m \in recent_messages : m.bank,
         mentions_upi |-> \E m \in recent_messages : m.upiWord,
         mentions_kyc |-> \E m \in recent_messages : m.kyc,
         mentions_urgent |-> \E m \in recent_messages : m.urgentWord,
         mentions_link |-> \E m \in recent_messages : m.link,
         mentions_money |-> \E m \in recent_messages : m.money,
         conversation_stage |-> Min(Len(history) \div 2, 4)]

get_initial_stage_response(context) ==
    <<"Oh no, what happened? Why is there an issue with my account?",
      "I'm confused, which account are you talking about?",
      "Is this serious? Should I be worried?",
      "Can you tell me more about what's going on?",
      "I don't understand, what seems to be the problem?">>
    \o (IF context.mentions_bank
        THEN <<"Which bank is this regarding? I have accounts in multiple banks.",
               "Is this about my SBI account or HDFC account?">>
        ELSE <<>>)

get_engagement_response(context) ==
    <<"That sounds concerning. What do I need to do exactly?",
      "I see. Can you walk me through the process step by step?",
      "Okay, I understand. What's the first thing I should do?",
      "Thank you for letting me know. How can I resolve this quickly?">>
    \o (IF context.mentions_urgent
        THEN <<"This seems urgent. What happens if I don't act immediately?",
               "I'm a bit scared now. Please help me understand this better.">>
        ELSE <<>>)

get_information_seeking_response(context) ==
    <<"Can you provide more details about the verification process?",
      "What information do you need from me exactly?",
      "Is there a website or official portal I should visit?",
      "How can I confirm this is legitimate?">>
    \o (IF context.mentions_upi
        THEN <<"Which UPI ID should I use? I have multiple payment apps.",
               "Should I use my Google Pay UPI or PhonePe UPI?">>
        ELSE <<>>)
    \o (IF context.mentions_link
        THEN <<"Can you send me the official link? I want to make sure it's authentic.",
               "Is there a government website I should check?">>
        ELSE <<>>)

get_verification_response(context) ==
    <<"I want to make sure this is legitimate. Can you verify your identity?",
      "How can I confirm you're actually from the bank/organization?",
      "Is there a customer service number I can call to verify this?",
      "Can you provide any reference number or case ID for this issue?">>
    \o (IF context.mentions_money
        THEN <<"Why do I need to make a payment to resolve this?",
               "Is there any fee involved? How much exactly?">>
        ELSE <<>>)

get_advanced_response(context) ==
    <<"I've been getting similar messages lately. How do I know this isn't a scam?",
      "My friend warned me about fraud attempts. Can you prove this is genuine?",
      "I think I should contact my bank directly to confirm this.",
      "Can you share your employee ID or official identification?">>
    \o (IF context.mentions_kyc
        THEN <<"But I already completed my KYC last year. Why do I need to do it again?",
               "Should I visit my bank branch for KYC verification instead?">>
        ELSE <<>>)

\* the candidate list the stage's method draws from
craft_response(context) ==
    IF context.conversation_stage = 0 THEN get_initial_stage_response(context)
    ELSE IF context.conversation_stage = 1 THEN get_engagement_response(context)
    ELSE IF context.conversation_stage = 2 THEN get_information_seeking_response(context)
    ELSE IF context.conversation_stage = 3 THEN get_verification_response(context)
    ELSE get_advanced_response(context)

generate_contextual_response(history, draw) ==
    IF history = <<>>
    THEN Choice(initial_responses, draw)
    ELSE Choice(craft_response(analyze_context(history)), draw)

agent_reply(history, draw) == generate_contextual_response(history, draw)

-----------------------------------------------------------------------------
(* main.py *)

Msg(sender, text) == [sender |-> sender, text |-> text]

NoPost == [sent |-> FALSE]
NoResponse == [status |-> "none"]

\* what requests.post can end in: status 200, another status, a
\* RequestException (connection error), a Timeout after 10 s
Outcomes == {"200", "500", "network_error", "timeout"}

\* lines 144-147, on the session dict and the current message's confidence
should_callback(session, confidence) ==
    /\ \/ Len(session.messages) >= CALLBACK_MIN_MESSAGES
       \/ /\ confidence >= CALLBACK_MIN_CONFIDENCE
          /\ Len(session.messages) >= CALLBACK_MIN_MESSAGES_CONFIDENT
    /\ ~session.completed

\* lines 182-188
CallbackPayload(session_summary, outcome) ==
    [sent |-> TRUE,
     sessionId |-> session_summary.sessionId,
     scamDetected |-> session_summary.scamDetected,
     totalMessagesExchanged |-> session_summary.totalMessagesExchanged,
     extractedIntelligence |-> session_summary.extractedIntelligence,
     agentNotes |-> session_summary.agentNotes,
     outcome |-> outcome]

\* the store send_final_callback leaves and the POST it makes; every outcome
\* of the POST is logged and swallowed
send_final_callback(store, session_id, current_time, outcome) ==
    [store |-> get_session(store, session_id, current_time),
     post |-> CallbackPayload(get_session_summary(store, session_id, current_time),
                              outcome)]

\* lines 110-111: both keys now name the one list complete_history
install_history(store, session_id, complete_history) ==
    [store EXCEPT ![session_id].conversationHistory = complete_history,
                  ![session_id].messages = complete_history,
                  ![session_id].sameList = TRUE]

\* lines 126-128
add_keywords(intel, keywords) ==
    [intel EXCEPT !.suspiciousKeywords = ExtendNew(@, keywords)]

\* lines 123-128
merge_intelligence(store, session_id, text, keywords, seed) ==
    [store EXCEPT
       ![session_id].intelligence =
           add_keywords(extract_intelligence(text, @, seed), keywords)]

\* lines 134-140: the reply is appended to messages and to conversationHistory,
\* which are one list
append_reply(store, session_id, agent_message) ==
    [store EXCEPT
       ![session_id].messages = @ \o <<agent_message, agent_message>>,
       ![session_id].conversationHistory = @ \o <<agent_message, agent_message>>]

\* lines 144-147, on the store holding the reply
check_callback(replied, session_id, confidence, reply) ==
    [store |-> replied, is_scam |-> TRUE, confidence |-> confidence,
     reply |-> reply,
     fire |-> should_callback(replied[session_id], confidence)]

\* lines 134-147
reply_and_check(store, session_id, confidence, reply) ==
    check_callback(append_reply(store, session_id, Msg("user", reply)),
                   session_id, confidence, reply)

\* line 131 on: complete_history is the list update_session appended to
reply_to_history(merged, session_id, confidence, draw) ==
    reply_and_check(merged, session_id, confidence,
                    agent_reply(merged[session_id].messages, draw))

\* mutant: the callback test is made on turns not classified as fraud too
scam_branch_check_always(store, session_id, text, score, draw, seed) ==
    IF score.is_scam
    THEN reply_to_history(
             merge_intelligence(store, session_id, text, score.keywords, seed),
             session_id, score.confidence, draw)
    ELSE [store |-> store, is_scam |-> FALSE, confidence |-> score.confidence,
          reply |-> "Okay.",
          fire |-> should_callback(store[session_id], score.confidence)]

\* lines 119-169, given the score and the store update_session left
scam_branch(store, session_id, text, score, draw, seed) ==
    IF score.is_scam
    THEN reply_to_history(
             merge_intelligence(store, session_id, text, score.keywords, seed),
             session_id, score.confidence, draw)
    ELSE [store |-> store, is_scam |-> FALSE, confidence |-> score.confidence,
          reply |-> "Okay.", fire |-> FALSE]

\* lines 95-147: the store after the turn's processing, the reply, the score
\* and whether the callback is due
score_and_update(store, session_id, message, score, draw, current_time, seed) ==
    scam_branch(update_session(store, session_id, message, score.is_scam,
                               score.confidence, current_time),
                session_id, message.text, score, draw, seed)

process_turn(store, session_id, message, conversation_history, draw, current_time, seed) ==
    score_and_update(
        install_history(get_session(store, session_id, current_time), session_id,
                        Append(conversation_history, message)),
        session_id, message, calculate_scam_score(message.text), draw,
        current_time, seed)

\* line 152, after the callback
complete_after(sent, session_id) ==
    [store |-> mark_completed(sent.store, session_id), post |-> sent.post]

\* mutant: the session is marked only when the POST succeeded
complete_after_ok(sent, session_id, outcome) ==
    IF outcome = "200" THEN complete_after(sent, session_id) ELSE sent

callback_and_complete_if_ok(store, session_id, current_time, outcome) ==
    complete_after_ok(send_final_callback(store, session_id, current_time, outcome),
                      session_id, outcome)

\* lines 149-152
callback_and_complete(store, session_id, current_time, outcome) ==
    complete_after(send_final_callback(store, session_id, current_time, outcome),
                   session_id)

\* lines 154-169: the response, beside what the callback step left
respond(done, turn) ==
    [store |-> done.store,
     post |-> done.post,
     response |-> [status |-> "success", reply |-> turn.reply,
                   scamDetected |-> turn.is_scam,
                   confidence |-> turn.confidence]]

\* lines 149-169, given the turn's processing
finish_turn(turn, session_id, current_time, outcome) ==
    respond(IF turn.fire
            THEN callback_and_complete(turn.store, session_id, current_time, outcome)
            ELSE [store |-> turn.store, post |-> NoPost],
            turn)

\* the handler past authentication: the store it leaves, the POST it made (or
\* NoPost) and the response it returns
honeypot_message(store, session_id, message, conversation_history, draw, outcome, current_time, seed) ==
    finish_turn(process_turn(store, session_id, message, conversation_history,
                             draw, current_time, seed),
                session_id, current_time, outcome)

-----------------------------------------------------------------------------------------------------------------------------------------------------
(* Inputs *)

\* the conversation so far, as a client supplies it: the first n messages of
\* an exchange between the scammer and the agent
History(n) ==
    [i \in 1..n |-> IF i % 2 = 1 THEN Msg("scammer", tScamA) ELSE Msg("user", tHello)]
Histories == {History(n) : n \in 0..MaxHist}

\* an idle period of exactly the timeout, and one a second longer
TickAmounts == {session_timeout, session_timeout + 1}

\* the orders list(set(..)) yields: first occurrence first, or last
Seeds == {0, 1}

\* values the random source yields: a candidate of every base list, and one
\* that falls on an added candidate when the list has six
Draws == {0, 5}

\* the requests in flight at one time, and a task no request has been given to
TaskIds == {"t1", "t2"}
IdleTask == [pc |-> "idle"]

\* the incarnation of a session: a recreated session has a later startTime
Incarnation(session) ==
    [sessionId |-> session.sessionId, startTime |-> session.startTime]

Counted(session_id) ==
    IF session_id \in DOMAIN sessions
    THEN sessions[session_id].scammerMessagesCount
         + sessions[session_id].agentMessagesCount
    ELSE 0

-----------------------------------------------------------------------------
(* State machine *)

\* a process just started, its hash seed one of seeds
Started(seeds) ==
    /\ sessions = <<>>
    /\ now = 0
    /\ hashSeed \in seeds
    /\ callbacks = EmptyBag
    /\ call = [op |-> "init"]
    /\ posted = NoPost
    /\ response = NoResponse
    /\ tasks = [t \in TaskIds |-> IdleTask]

Init == Started({0})

\* the state a request leaves, r being what the handler returns
Answered(r, session_id) ==
    /\ sessions' = r.store
    /\ posted' = r.post
    /\ response' = r.response
    /\ callbacks' = IF r.post.sent
                    THEN callbacks (+) SetToBag({Incarnation(r.store[session_id])})
                    ELSE callbacks

\* lines 149-169 of a request whose processing gave `turn`: when the callback
\* is due, the POST ends in one of `outcomes`
Finished(turn, session_id, outcomes) ==
    \E outcome \in (IF turn.fire THEN outcomes ELSE {"200"}) :
        Answered(finish_turn(turn, session_id, now, outcome), session_id)

\* POST /honeypot/message with the right API key
Turn(session_id, message, conversation_history, draw, outcomes) ==
    /\ Finished(process_turn(sessions, session_id, message, conversation_history,
                             draw, now, hashSeed),
                session_id, outcomes)
    /\ call' = [op |-> "honeypot_message", session_id |-> session_id,
                message |-> message, history |-> Len(conversation_history)]
    /\ UNCHANGED <<now, hashSeed, tasks>>

\* a turn of a conversation of at most MaxMsgs counted messages
Request(session_id, message, conversation_history, draw, outcomes) ==
    /\ Counted(session_id) < MaxMsgs
    /\ Turn(session_id, message, conversation_history, draw, outcomes)

\* POST /honeypot/message with a wrong API key: lines 90-92
Unauthorized(session_id) ==
    /\ call' = [op |-> "unauthorized", session_id |-> session_id]
    /\ response' = [status |-> "401"]
    /\ posted' = NoPost
    /\ UNCHANGED <<sessions, now, hashSeed, callbacks, tasks>>

\* the store's functions, called directly
GetSession(session_id) ==
    /\ sessions' = get_session(sessions, session_id, now)
    /\ call' = [op |-> "get_session", session_id |-> session_id]
    /\ posted' = NoPost
    /\ response' = NoResponse
    /\ UNCHANGED <<now, hashSeed, callbacks, tasks>>

UpdateSession(session_id, message, scam_detected, confidence) ==
    /\ Counted(session_id) < MaxMsgs
    /\ sessions' = update_session(sessions, session_id, message, scam_detected,
                                  confidence, now)
    /\ call' = [op |-> "update_session", session_id |-> session_id,
                message |-> message, scam_detected |-> scam_detected,
                confidence |-> confidence]
    /\ posted' = NoPost
    /\ response' = NoResponse
    /\ UNCHANGED <<now, hashSeed, callbacks, tasks>>

GetSessionSummary(session_id) ==
    /\ sessions' = get_session(sessions, session_id, now)
    /\ call' = [op |-> "get_session_summary", session_id |-> session_id]
    /\ posted' = NoPost
    /\ response' = NoResponse
    /\ UNCHANGED <<now, hashSeed, callbacks, tasks>>

MarkCompleted(session_id) ==
    /\ sessions' = mark_completed(sessions, session_id)
    /\ call' = [op |-> "mark_completed", session_id |-> session_id]
    /\ posted' = NoPost
    /\ response' = NoResponse
    /\ UNCHANGED <<now, hashSeed, callbacks, tasks>>

\* time passes
Tick(d) ==
    /\ now \div session_timeout < MaxTicks
    /\ now' = now + d
    /\ call' = [op |-> "tick"]
    /\ posted' = NoPost
    /\ response' = NoResponse
    /\ UNCHANGED <<sessions, hashSeed, callbacks, tasks>>

DoTick == \E d \in TickAmounts : Tick(d)

-----------------------------------------------------------------------------
(* The service: one conversation driven through the endpoint *)

ServiceIds == {"s1"}
ServiceMessages ==
    {Msg("scammer", tBenign), Msg("scammer", tScamA), Msg("scammer", tPay),
     Msg("user", tBenign)}

\* the random source is drawn from in the fraud branch only
ServiceDraws(message) ==
    IF calculate_scam_score(message.text).is_scam THEN Draws ELSE {0}

ServiceRequest ==
    \E session_id \in ServiceIds, message \in ServiceMessages,
       conversation_history \in Histories :
        \E draw \in ServiceDraws(message) :
            Request(session_id, message, conversation_history, draw, Outcomes)

ServiceUnauthorized == \E session_id \in ServiceIds : Unauthorized(session_id)

Next ==
    \/ ServiceRequest
    \/ ServiceUnauthorized
    \/ DoTick

Spec == Init /\ [][Next]_vars

-----------------------------------------------------------------------------
(* The store as a library: its functions called directly on one session *)

StoreIds == {"s1"}
StoreMessages == {Msg("scammer", tScamA), Msg("user", tHello)}
Confidences == {30, 40, 60, 80}

StoreGetSession == \E session_id \in StoreIds : GetSession(session_id)

StoreUpdateSession ==
    \E session_id \in StoreIds, message \in StoreMessages,
       scam_detected \in BOOLEAN, confidence \in Confidences :
        UpdateSession(session_id, message, scam_detected, confidence)

StoreGetSessionSummary == \E session_id \in StoreIds : GetSessionSummary(session_id)

StoreMarkCompleted == \E session_id \in StoreIds : MarkCompleted(session_id)

StoreRequest ==
    \E session_id \in StoreIds,
       message \in {Msg("scammer", tScamA), Msg("scammer", tBenign)} :
        Request(session_id, message, History(0), 0, {"200", "timeout"})

StoreNext ==
    \/ StoreGetSession
    \/ StoreUpdateSession
    \/ StoreGetSessionSummary
    \/ StoreMarkCompleted
    \/ StoreRequest
    \/ DoTick

StoreInit == Started(Seeds)

StoreSpec == StoreInit /\ [][StoreNext]_vars

-----------------------------------------------------------------------------
(* Several sessions in one store *)

FleetIds == {"s1", "s2"}

FleetGetSession == \E session_id \in FleetIds : GetSession(session_id)

FleetUpdateSession ==
    \E session_id \in FleetIds :
        UpdateSession(session_id, Msg("scammer", tScamA), TRUE, 90)

FleetGetSessionSummary == \E session_id \in FleetIds : GetSessionSummary(session_id)

FleetMarkCompleted == \E session_id \in FleetIds : MarkCompleted(session_id)

FleetRequest ==
    \E session_id \in FleetIds :
        Request(session_id, Msg("scammer", tScamA), History(0), 0, {"200", "timeout"})

FleetNext ==
    \/ FleetGetSession
    \/ FleetUpdateSession
    \/ FleetGetSessionSummary
    \/ FleetMarkCompleted
    \/ FleetRequest
    \/ DoTick

FleetInit == Started({0})

FleetSpec == FleetInit /\ [][FleetNext]_vars

-----------------------------------------------------------------------------
(* The scorer alone, on every combination of hits within the bounds *)

Hits ==
    [kw : {SubSeq(SCAM_KEYWORDS, 1, n) : n \in 0..MaxKeywordHits},
     urgency : 0..MaxPatternHits,
     financial : 0..MaxPatternHits,
     phishing : 0..MaxPatternHits,
     url : BOOLEAN,
     phone : BOOLEAN]

\* calculate_scam_score on a text in which the searches find f
Score(f) ==
    /\ call' = [op |-> "calculate_scam_score", hits |-> f]
    /\ response' = [status |-> "scored", score |-> score_hits(f)]
    /\ posted' = NoPost
    /\ UNCHANGED <<sessions, now, hashSeed, callbacks, tasks>>

ScorerNext == \E f \in Hits : Score(f)

ScorerInit == Started({0})

ScorerSpec == ScorerInit /\ [][ScorerNext]_vars

-----------------------------------------------------------------------------
(* The reply selector alone *)

AgentTexts == {tScamA, tPay, tLink}

\* n messages of the agent's, the k-th (if any) replaced by the scammer's t
PlantedHistory(n, t, k) ==
    [i \in 1..n |-> IF i = k THEN Msg("scammer", t) ELSE Msg("user", tHello)]

AgentHistories ==
    {PlantedHistory(n, t, k) : n \in 0..MaxAgentHist, t \in AgentTexts,
                               k \in 0..MaxAgentHist}

\* agent_reply(history), the random source yielding draw
Reply(history, draw) ==
    /\ call' = [op |-> "agent_reply", history |-> history, draw |-> draw]
    /\ response' = [status |-> "replied", reply |-> agent_reply(history, draw)]
    /\ posted' = NoPost
    /\ UNCHANGED <<sessions, now, hashSeed, callbacks, tasks>>

AgentNext == \E history \in AgentHistories, draw \in 0..MaxDraw : Reply(history, draw)

AgentInit == Started({0})

AgentSpec == AgentInit /\ [][AgentNext]_vars

-----------------------------------------------------------------------------
(* The event loop: two requests on one session, in flight at one time *)

LoopIds == {"s1"}
LoopMessages ==
    {Msg("scammer", tBenign), Msg("scammer", tScamA), Msg("scammer", tPay)}
LoopRequests ==
    [session_id : LoopIds, message : LoopMessages, history : 0..MaxHist,
     draw : {0}]

\* mutant: the POST is awaited, the loop's thread runs other tasks meanwhile
Blocks_never(task) == FALSE

\* main.py line 192: requests.post is a blocking call made on the loop's
\* thread, and send_final_callback awaits nothing: the task that is in the
\* POST holds the thread until the POST returns
Blocks(task) == task.pc = "posting"

LoopFree == \A t \in TaskIds : ~Blocks(tasks[t])

\* a POST is in flight
Posting == \E t \in TaskIds : tasks[t].pc = "posting"

\* mutant: every handler invocation works on a SessionManager of its own
handler_store_private(current) == <<>>

\* session_store.py lines 163-168: every handler invocation works on the
\* module's one SessionManager, as it is when the handler runs
handler_store(current) == current

\* the server accepts a request; its handler waits for the loop's thread
Accept(t, request) ==
    /\ tasks[t].pc = "idle"
    /\ tasks' = [tasks EXCEPT ![t] = [pc |-> "pending", request |-> request,
                                      overlapped |-> Posting]]
    /\ call' = [op |-> "accept", task |-> t]
    /\ posted' = NoPost
    /\ response' = NoResponse
    /\ UNCHANGED <<sessions, now, hashSeed, callbacks>>

\* lines 149-169 up to the POST: the handler either returns, or builds the
\* payload (lines 180-188) and enters requests.post
RunTo(t, turn, session_id) ==
    IF turn.fire
    THEN /\ sessions' = get_session(turn.store, session_id, now)
         /\ tasks' = [tasks EXCEPT ![t] =
                [pc |-> "posting", request |-> @.request,
                 overlapped |-> @.overlapped, turn |-> turn,
                 post |-> send_final_callback(turn.store, session_id, now,
                                              "in_flight").post]]
         /\ response' = NoResponse
    ELSE /\ sessions' = turn.store
         /\ tasks' = [tasks EXCEPT ![t] =
                [pc |-> "done", request |-> @.request,
                 overlapped |-> @.overlapped, turn |-> turn, fired |-> FALSE]]
         /\ response' = respond([store |-> turn.store, post |-> NoPost],
                                turn).response

\* the loop's thread runs the handler of a pending request, from line 90 to
\* its return or to the POST
Start(t) ==
    /\ tasks[t].pc = "pending"
    /\ LoopFree
    /\ RunTo(t, process_turn(handler_store(sessions), tasks[t].request.session_id,
                             tasks[t].request.message,
                             History(tasks[t].request.history),
                             tasks[t].request.draw, now, hashSeed),
             tasks[t].request.session_id)
    /\ call' = [op |-> "start", task |-> t]
    /\ posted' = NoPost
    /\ UNCHANGED <<now, hashSeed, callbacks>>

\* the POST returns or fails; lines 199-207, 152 and 154-159
Delivered(t, outcome) ==
    /\ tasks[t].pc = "posting"
    /\ sessions' = mark_completed(sessions, tasks[t].request.session_id)
    /\ posted' = [tasks[t].post EXCEPT !.outcome = outcome]
    /\ callbacks' = callbacks
           (+) SetToBag({Incarnation(sessions[tasks[t].request.session_id])})
    /\ response' = respond([store |-> sessions', post |-> posted'],
                           tasks[t].turn).response
    /\ tasks' = [tasks EXCEPT ![t] =
           [pc |-> "done", request |-> @.request, overlapped |-> @.overlapped,
            turn |-> @.turn, fired |-> TRUE]]
    /\ call' = [op |-> "delivered", task |-> t]
    /\ UNCHANGED <<now, hashSeed>>

LoopAccept == \E t \in TaskIds, request \in LoopRequests : Accept(t, request)
LoopStart == \E t \in TaskIds : Start(t)
LoopDelivered == \E t \in TaskIds, outcome \in Outcomes : Delivered(t, outcome)

LoopNext ==
    \/ LoopAccept
    \/ LoopStart
    \/ LoopDelivered

LoopInit == Started({0})

LoopSpec == LoopInit /\ [][LoopNext]_vars

-----------------------------------------------------------------------------
(* A long conversation: one session, every request without history *)

LongIds == {"s1"}
LongMessages == {Msg("scammer", tBenign), Msg("scammer", tScamA), Msg("user", tBenign)}

LongRequest ==
    \E session_id \in LongIds, message \in LongMessages :
        /\ Counted(session_id) < MaxTurns
        /\ Turn(session_id, message, History(0), 0, {"200"})

LongNext == LongRequest

LongInit == Started({0})

LongSpec == LongInit /\ [][LongNext]_vars

-----------------------------------------------------------------------------
(* Properties *)

\* the session of session_id before and after the step is one incarnation
SameSession(session_id) ==
    /\ session_id \in DOMAIN sessions
    /\ session_id \in DOMAIN sessions'
    /\ sessions'[session_id].startTime = sessions[session_id].startTime

\* the session a call on session_id finds: the stored one unless it has expired
Live(session_id) ==
    /\ session_id \in DOMAIN sessions
    /\ ~Expired(sessions[session_id], now)

NoDuplicates(seq) == Cardinality(Range(seq)) = Len(seq)

\* C1: over the turns of a session, from its creation to its eviction, the
\* completion report is POSTed at most once, also when later fraud turns
\* still meet the message-count threshold.
C1_ReportAtMostOnce ==
    \A k \in DOMAIN callbacks : callbacks[k] <= 1

\* a fraud turn on a session already reported, with eight or more messages
\* both recorded and counted, that made no POST
C1_Witness ==
    /\ call.op = "honeypot_message"
    /\ response.scamDetected
    /\ ~posted.sent
    /\ LET s == sessions[call.session_id]
       IN  /\ s.totalMessagesExchanged >= CALLBACK_MIN_MESSAGES
           /\ Len(s.messages) >= CALLBACK_MIN_MESSAGES
           /\ BagIn(Incarnation(s), callbacks)

\* C2: on a fraud turn the report is triggered exactly when
\* (totalMessagesExchanged >= 8 or (confidence >= 0.8 and
\* totalMessagesExchanged >= 4)) and the session was not completed, with
\* totalMessagesExchanged as update_session set it in that turn.
C2_ReportIffThreshold ==
    [][(call'.op = "honeypot_message" /\ response'.scamDetected) =>
         LET total == sessions'[call'.session_id].totalMessagesExchanged
             confidence == response'.confidence
         IN  posted'.sent <=>
                 /\ \/ total >= CALLBACK_MIN_MESSAGES
                    \/ /\ confidence >= CALLBACK_MIN_CONFIDENCE
                       /\ total >= CALLBACK_MIN_MESSAGES_CONFIDENT
                 /\ ~(Live(call'.session_id) /\ sessions[call'.session_id].completed)
      ]_vars

\* C3: a turn that makes the POST leaves the session completed whatever the
\* POST's outcome, answers with status success and the reply, keeps what the
\* turn recorded (the reply, the flag, the reported counters and artifacts),
\* and no session is ever reported a second time.
C3_CompletedWhateverOutcome ==
    /\ posted.sent =>
         LET s == sessions[posted.sessionId]
         IN  /\ posted.outcome \in Outcomes
             /\ s.completed
             /\ response.status = "success"
             /\ response.scamDetected
             /\ s.messages[Len(s.messages)] = Msg("user", response.reply)
             /\ s.scamDetected
             /\ s.totalMessagesExchanged = posted.totalMessagesExchanged
             /\ s.intelligence = posted.extractedIntelligence
             /\ callbacks[Incarnation(s)] = 1
    /\ \A k \in DOMAIN callbacks : callbacks[k] = 1

\* a POST that timed out, its session completed
C3_Witness ==
    /\ posted.sent
    /\ posted.outcome = "timeout"
    /\ sessions[posted.sessionId].completed
    /\ response.status = "success"

\* C4: completed never goes back to false while the session lives, whatever
\* the operation (get_session, update_session, get_session_summary,
\* mark_completed, a request).
C4_CompletedMonotonic ==
    [][\A session_id \in DOMAIN sessions :
           (SameSession(session_id) /\ sessions[session_id].completed)
               => sessions'[session_id].completed]_vars

\* update_session has run on a completed session
C4_Witness ==
    /\ call.op = "update_session"
    /\ sessions[call.session_id].completed
    /\ sessions[call.session_id].totalMessagesExchanged > 0

\* C5: in every state, totalMessagesExchanged is the length of messages.
C5_TotalIsLength ==
    \A session_id \in DOMAIN sessions :
        sessions[session_id].totalMessagesExchanged
            = Len(sessions[session_id].messages)

\* the scamConfidence a call on session_id starts from
PriorConfidence(session_id) ==
    IF Live(session_id) THEN sessions[session_id].scamConfidence ELSE 0

\* C6: every update_session call (direct, or the handler's) leaves
\* scamConfidence at the maximum of its prior value and the confidence passed
\* when scam_detected, and at its prior value otherwise; no step lowers it.
C6_ConfidenceIsMax ==
    [][/\ call'.op = "update_session" =>
            sessions'[call'.session_id].scamConfidence =
                IF call'.scam_detected
                THEN Max(PriorConfidence(call'.session_id), call'.confidence)
                ELSE PriorConfidence(call'.session_id)
       /\ call'.op = "honeypot_message" =>
            sessions'[call'.session_id].scamConfidence =
                IF response'.scamDetected
                THEN Max(PriorConfidence(call'.session_id), response'.confidence)
                ELSE PriorConfidence(call'.session_id)
       /\ \A session_id \in DOMAIN sessions :
              SameSession(session_id) =>
                  sessions'[session_id].scamConfidence
                      >= sessions[session_id].scamConfidence
      ]_vars

\* a fraud call with a confidence below the session's maximum
C6_Witness ==
    /\ call.op = "update_session"
    /\ call.scam_detected
    /\ call.confidence < sessions[call.session_id].scamConfidence

\* C7: scamDetected never goes back to false while the session lives.
C7_ScamDetectedMonotonic ==
    [][\A session_id \in DOMAIN sessions :
           (SameSession(session_id) /\ sessions[session_id].scamDetected)
               => sessions'[session_id].scamDetected]_vars

\* a turn classified as not fraud on a flagged session
C7_Witness ==
    /\ call.op = "honeypot_message"
    /\ ~response.scamDetected
    /\ sessions[call.session_id].scamDetected

\* C8: no collection of any session's intelligence holds a value twice.
C8_NoDuplicateArtifacts ==
    \A session_id \in DOMAIN sessions :
        \A k \in DOMAIN sessions[session_id].intelligence :
            NoDuplicates(sessions[session_id].intelligence[k])

\* C9: a session idle for longer than the timeout is gone after the next
\* store operation of any kind on any id; when that operation references
\* its id, what the store holds is a fresh session.
C9_ExpiredGoneAfterAccess ==
    [][call'.op \in {"get_session", "update_session", "get_session_summary",
                     "mark_completed", "honeypot_message"} =>
         \A session_id \in DOMAIN sessions :
             Expired(sessions[session_id], now) =>
                 \/ session_id \notin DOMAIN sessions'
                 \/ /\ call'.session_id = session_id
                    /\ sessions'[session_id].startTime = now
                    /\ call'.op \in {"get_session", "get_session_summary"} =>
                           sessions'[session_id] = NewSession(session_id, now)
      ]_vars

\* `once` is what merging the extraction of t into it again gives
MergedAgain(t, once, seed) == extract_intelligence(t, once, seed) = once

\* C10: merging the extraction of a text into an artifact set twice gives
\* what merging it once gives.
C10_MergeIdempotent ==
    \A session_id \in DOMAIN sessions, t \in Texts, seed \in Seeds :
        MergedAgain(t, extract_intelligence(t, sessions[session_id].intelligence,
                                            seed),
                    seed)

\* a non-empty artifact set to which the extraction of some text adds values
C10_Witness ==
    \E session_id \in DOMAIN sessions, t \in Texts :
        /\ sessions[session_id].intelligence.suspiciousKeywords # <<>>
        /\ extract_intelligence(t, sessions[session_id].intelligence, hashSeed).upiIds
               # sessions[session_id].intelligence.upiIds

\* C11: over the steps of a session's life, every value present in a
\* collection of its intelligence is still in that collection after the step.
C11_ArtifactsNeverDropped ==
    [][\A session_id \in DOMAIN sessions :
           SameSession(session_id) =>
               \A k \in DOMAIN sessions[session_id].intelligence :
                   Range(sessions[session_id].intelligence[k])
                       \subseteq Range(sessions'[session_id].intelligence[k])]_vars

\* a fraud turn on a session that holds what two different texts yielded
C11_Witness ==
    /\ call.op = "honeypot_message"
    /\ response.scamDetected
    /\ "user@paytm" \in Range(sessions[call.session_id].intelligence.upiIds)
    /\ "blocked" \in Range(sessions[call.session_id].intelligence.suspiciousKeywords)

\* the fields C12 names, as a session has them when created
Blank(session) ==
    /\ session.totalMessagesExchanged = 0
    /\ session.scammerMessagesCount = 0
    /\ session.agentMessagesCount = 0
    /\ session.scamDetected = FALSE
    /\ session.completed = FALSE
    /\ session.messages = <<>>
    /\ \A k \in {"upiIds", "phoneNumbers", "phishingLinks", "bankAccounts",
                 "suspiciousKeywords"} :
           session.intelligence[k] = <<>>

\* C12: the session that get_session (directly, or for a summary) creates
\* for an id the store does not hold, or holds expired, has zero counters,
\* scamDetected and completed false, no messages and five empty collections.
C12_NewSessionBlank ==
    [][(/\ call'.op \in {"get_session", "get_session_summary"}
        /\ ~Live(call'.session_id))
           => Blank(sessions'[call'.session_id])]_vars

\* get_session has created a session anew after an earlier one expired
C12_Witness ==
    /\ call.op = "get_session"
    /\ now > session_timeout
    /\ sessions[call.session_id].startTime = now
    /\ Blank(sessions[call.session_id])

\* the fields of the session a call on session_id starts from
Prior(session_id) ==
    IF Live(session_id) THEN sessions[session_id] ELSE NewSession(session_id, now)

\* C13: a turn not classified as fraud answers "Okay." with scamDetected
\* false, makes no POST, and leaves the session's intelligence, completed,
\* scamDetected and scamConfidence as the turn found them.
C13_NonFraudFrame ==
    [][(call'.op = "honeypot_message" /\ ~response'.scamDetected) =>
         /\ response'.status = "success"
         /\ response'.reply = "Okay."
         /\ ~posted'.sent
         /\ callbacks' = callbacks
         /\ sessions'[call'.session_id].intelligence
                = Prior(call'.session_id).intelligence
         /\ sessions'[call'.session_id].completed
                = Prior(call'.session_id).completed
         /\ sessions'[call'.session_id].scamDetected
                = Prior(call'.session_id).scamDetected
         /\ sessions'[call'.session_id].scamConfidence
                = Prior(call'.session_id).scamConfidence
      ]_vars

\* a turn not classified as fraud on a flagged session, not yet reported,
\* that has eight messages
C13_Witness ==
    /\ call.op = "honeypot_message"
    /\ ~response.scamDetected
    /\ sessions[call.session_id].scamDetected
    /\ ~sessions[call.session_id].completed
    /\ sessions[call.session_id].totalMessagesExchanged >= CALLBACK_MIN_MESSAGES

\* C14: from one step of a session's life to the next, conversationStage
\* and totalMessagesExchanged never decrease, and after every update_session
\* (direct, or the handler's) the stage is min(totalMessagesExchanged div 2, 5).
C14_StageNeverDecreases ==
    [][/\ \A session_id \in DOMAIN sessions :
              SameSession(session_id) =>
                  /\ sessions'[session_id].conversationStage
                         >= sessions[session_id].conversationStage
                  /\ sessions'[session_id].totalMessagesExchanged
                         >= sessions[session_id].totalMessagesExchanged
       /\ call'.op \in {"update_session", "honeypot_message"} =>
              sessions'[call'.session_id].conversationStage
                  = Min(sessions'[call'.session_id].totalMessagesExchanged \div 2,
                        MAX_STAGE)
      ]_vars

\* the weighted sum of the hits f, in hundredths
WeightedSum(f) ==
    Len(f.kw) * KEYWORD_WEIGHT + f.urgency * URGENCY_WEIGHT
    + f.financial * FINANCIAL_WEIGHT + f.phishing * PHISHING_WEIGHT
    + (IF f.url THEN URL_WEIGHT ELSE 0) + (IF f.phone THEN PHONE_WEIGHT ELSE 0)

\* C15: for every combination of hits the confidence is min(weighted sum,
\* 1.0), lies in [0, 1], and is_scam is true exactly when it is >= 0.4.
C15_ScoreRange ==
    call.op = "calculate_scam_score" =>
        /\ response.score.confidence = Min(WeightedSum(call.hits), MAX_SCORE)
        /\ response.score.confidence \in 0..MAX_SCORE
        /\ response.score.is_scam <=> response.score.confidence >= SCAM_THRESHOLD

\* a weighted sum above 1.0, scored
C15_Witness ==
    /\ call.op = "calculate_scam_score"
    /\ WeightedSum(call.hits) > MAX_SCORE
    /\ response.score.confidence = MAX_SCORE
    /\ response.score.is_scam

\* the context in which exactly the flags in `set` are raised
ContextOf(stage, set) ==
    [mentions_bank |-> "bank" \in set,
     mentions_upi |-> "upiWord" \in set,
     mentions_kyc |-> "kyc" \in set,
     mentions_urgent |-> "urgentWord" \in set,
     mentions_link |-> "link" \in set,
     mentions_money |-> "money" \in set,
     conversation_stage |-> stage]

ContextFlags == {"bank", "upiWord", "kyc", "urgentWord", "link", "money"}

\* the stage's candidates whatever the flags, and those a flag adds
BaseCandidates(stage) == Range(craft_response(ContextOf(stage, {})))
ExtraCandidates(stage, flag) ==
    Range(craft_response(ContextOf(stage, {flag}))) \ BaseCandidates(stage)

\* one of the last three messages of history has the flag's substring
InLastThree(history, flag) ==
    \E i \in 1..Len(history) :
        /\ i > Len(history) - 3
        /\ Features(history[i].text)[flag]

\* what C16 allows as the reply to history
AllowedReplies(history) ==
    IF history = <<>>
    THEN Range(initial_responses)
    ELSE BaseCandidates(Min(Len(history) \div 2, 4))
         \cup UNION {ExtraCandidates(Min(Len(history) \div 2, 4), flag) :
                        flag \in {g \in ContextFlags : InLastThree(history, g)}}

\* C16: the reply is never empty; for an empty history it is one of the
\* first-contact replies, otherwise a base candidate of stage
\* min(len(history) div 2, 4) or an extra candidate of that stage whose flag
\* one of the last three messages raises.
C16_ReplyFromCandidates ==
    call.op = "agent_reply" =>
        /\ response.reply # ""
        /\ response.reply \in AllowedReplies(call.history)

\* an extra candidate is the reply
C16_Witness ==
    /\ call.op = "agent_reply"
    /\ call.history # <<>>
    /\ response.reply \notin BaseCandidates(Min(Len(call.history) \div 2, 4))

StoreOperations ==
    {"get_session", "update_session", "get_session_summary", "mark_completed"}

\* C17: after every store operation, the session of the id it was called
\* with, when the store holds one, has lastActivity = the current time.
C17_ReferenceRefreshes ==
    [][(/\ call'.op \in StoreOperations
        /\ call'.session_id \in DOMAIN sessions')
           => sessions'[call'.session_id].lastActivity = now]_vars

\* C18 as stated: after every store operation the store holds a session of
\* the id it was called with.
C18_TotalOverSessionId ==
    [][call'.op \in StoreOperations
           => call'.session_id \in DOMAIN sessions']_vars

\* C18 as the code has it: after get_session, update_session and
\* get_session_summary the store holds a session of the id they were called
\* with; mark_completed on an id the store lacks leaves the store as it was.
C18_TotalExceptMarkCompleted ==
    [][/\ call'.op \in StoreOperations \ {"mark_completed"}
              => call'.session_id \in DOMAIN sessions'
       /\ (call'.op = "mark_completed" /\ call'.session_id \notin DOMAIN sessions)
              => sessions' = sessions]_vars

\* mark_completed has run on an id the store lacks, and the store, which
\* holds another session, lacks it
C18_Witness ==
    /\ call.op = "mark_completed"
    /\ call.session_id \notin DOMAIN sessions
    /\ DOMAIN sessions # {}

\* C19: mark_completed on an id the store lacks, or on a completed session,
\* leaves the store unchanged; in every case it changes nothing but the
\* session's completed flag, and a second call changes nothing more.
C19_MarkCompletedNoOp ==
    [][call'.op = "mark_completed" =>
         /\ call'.session_id \notin DOMAIN sessions => sessions' = sessions
         /\ (/\ call'.session_id \in DOMAIN sessions
             /\ sessions[call'.session_id].completed) => sessions' = sessions
         /\ call'.session_id \in DOMAIN sessions =>
                sessions' = [sessions EXCEPT ![call'.session_id].completed = TRUE]
         /\ mark_completed(sessions', call'.session_id) = sessions'
      ]_vars

\* mark_completed has run on a session the handler had reported and marked
C19_Witness ==
    /\ call.op = "mark_completed"
    /\ call.session_id \in DOMAIN sessions
    /\ sessions[call.session_id].completed
    /\ BagIn(Incarnation(sessions[call.session_id]), callbacks)

\* C20: update_session with scam_detected sets scamDetected and sets
\* riskLevel from the confidence passed (>= 0.8 high, >= 0.6 medium,
\* >= 0.4 low, else very_low); without it, scamDetected, scamConfidence and
\* riskLevel stay as the call found them.
C20_RiskFromConfidence ==
    [][call'.op = "update_session" =>
         IF call'.scam_detected
         THEN /\ sessions'[call'.session_id].scamDetected
              /\ sessions'[call'.session_id].riskLevel =
                     CASE call'.confidence >= RISK_HIGH -> "high"
                       [] call'.confidence \in RISK_MEDIUM..(RISK_HIGH - 1) -> "medium"
                       [] call'.confidence \in RISK_LOW..(RISK_MEDIUM - 1) -> "low"
                       [] call'.confidence < RISK_LOW -> "very_low"
         ELSE /\ sessions'[call'.session_id].scamDetected
                    = Prior(call'.session_id).scamDetected
              /\ sessions'[call'.session_id].scamConfidence
                    = Prior(call'.session_id).scamConfidence
              /\ sessions'[call'.session_id].riskLevel
                    = Prior(call'.session_id).riskLevel
      ]_vars

\* a fraud call with a confidence below the low threshold on a session whose
\* highest confidence is at the high threshold
C20_Witness ==
    /\ call.op = "update_session"
    /\ call.scam_detected
    /\ call.confidence < RISK_LOW
    /\ sessions[call.session_id].scamConfidence >= RISK_HIGH
    /\ sessions[call.session_id].riskLevel = "very_low"


\* s is an initial segment of t
IsPrefix(s, t) ==
    /\ Len(s) <= Len(t)
    /\ \A i \in 1..Len(s) : t[i] = s[i]

\* C21: the recorded message sequence of a session is append-only: over
\* every step of a session's life, the messages recorded before the step are
\* a prefix of the messages recorded after it.
C21_MessagesAppendOnly ==
    [][\A session_id \in DOMAIN sessions :
           SameSession(session_id) =>
               IsPrefix(sessions[session_id].messages,
                        sessions'[session_id].messages)
      ]_vars


\* the turn history of a request: the supplied messages, then the inbound one
TurnHistory(request) == Append(History(request.history), request.message)

\* C22: on a fraud turn with a supplied history of h messages, the reply is
\* the one the selector gives for the h supplied messages followed by the
\* inbound message: a candidate of stage min((h+1) div 2, 4) under the flags
\* of the last three messages of that history.
C22_ReplyForTurnHistory ==
    (call.op = "honeypot_message" /\ response.scamDetected) =>
        response.reply \in AllowedReplies(TurnHistory(call))


\* C23: at the end of a fraud turn the engagementScore is the one computed
\* from the session as the turn leaves it: its artifact-diversity factor is
\* min(0.2 x the number of non-empty collections of the merged
\* intelligence, 1.0), the artifacts of the current message included.
C23_EngagementAfterMerge ==
    (call.op = "honeypot_message" /\ response.scamDetected) =>
        sessions[call.session_id].engagementScore
            = calculate_engagement_score(sessions[call.session_id])


\* the tasks that reported or are reporting on session_id
Reporting(session_id) ==
    {t \in TaskIds :
        /\ tasks[t].pc \in {"posting", "done"}
        /\ tasks[t].request.session_id = session_id
        /\ tasks[t].pc = "done" => tasks[t].fired}

\* C24: with requests on one session in flight at one time, at most one
\* report is made for the session: no second turn passes the `not
\* completed` test between a turn's test and its mark_completed, so no more
\* than one task has reported or is in the POST, and no POST is repeated.
C24_OneReportInFlight ==
    /\ \A session_id \in LoopIds : Cardinality(Reporting(session_id)) <= 1
    /\ \A k \in DOMAIN callbacks : callbacks[k] <= 1

\* a fraud turn of the highest confidence, accepted while the report of
\* another turn on its session was in flight, has run and has not reported
C24_Witness ==
    \E t \in TaskIds, u \in TaskIds :
        /\ tasks[t].pc = "done" /\ tasks[t].fired
        /\ tasks[u].pc = "done" /\ ~tasks[u].fired
        /\ tasks[u].overlapped
        /\ tasks[u].request.session_id = tasks[t].request.session_id
        /\ tasks[u].turn.is_scam
        /\ tasks[u].turn.confidence >= CALLBACK_MIN_CONFIDENCE
        /\ Len(sessions[tasks[u].request.session_id].messages)
               >= CALLBACK_MIN_MESSAGES_CONFIDENT


\* the store a request leaves when its handler runs alone on store
Alone(store, request) ==
    honeypot_message(store, request.session_id, request.message,
                     History(request.history), request.draw, "200", now,
                     hashSeed).store

\* the store two requests leave on a new process, the handler of the second
\* running when that of the first has returned
OneAfterTheOther(first, second) == Alone(Alone(<<>>, first), second)

\* C25: when two requests on one session have been in flight at one time
\* and both have been answered, the store (each session's messages, counters,
\* scamDetected, scamConfidence, intelligence, completed and the rest) is
\* the one left by handling the two one after the other in some order.
C25_SerialOutcome ==
    (\A t \in TaskIds : tasks[t].pc = "done") =>
        \E t \in TaskIds, u \in TaskIds :
            /\ t # u
            /\ sessions = OneAfterTheOther(tasks[t].request, tasks[u].request)

\* two requests on one session, the second accepted while the first was in
\* the POST, both answered; the two orders leave different stores
C25_Witness ==
    /\ \A t \in TaskIds : tasks[t].pc = "done"
    /\ \E t \in TaskIds : tasks[t].overlapped
    /\ tasks["t1"].request.session_id = tasks["t2"].request.session_id
    /\ OneAfterTheOther(tasks["t1"].request, tasks["t2"].request)
           # OneAfterTheOther(tasks["t2"].request, tasks["t1"].request)


\* C26: a request or a store operation on one session id leaves every other
\* session that has not expired in the store with all its fields as they
\* were, creates no other session, and does nothing to an expired other
\* session but remove it.
C26_OtherSessionsUntouched ==
    [][call'.op \in StoreOperations \cup {"honeypot_message"} =>
         /\ \A other \in DOMAIN sessions \ {call'.session_id} :
                IF Expired(sessions[other], now)
                THEN other \in DOMAIN sessions' => sessions'[other] = sessions[other]
                ELSE /\ other \in DOMAIN sessions'
                     /\ sessions'[other] = sessions[other]
         /\ DOMAIN sessions' \ {call'.session_id} \subseteq DOMAIN sessions
      ]_vars

\* a request on one session at a time when another session, which holds a
\* message, has been idle for exactly the timeout and is still in the store
C26_Witness ==
    \E session_id \in DOMAIN sessions, other \in DOMAIN sessions :
        /\ other # session_id
        /\ call.op = "honeypot_message"
        /\ call.session_id = session_id
        /\ sessions[session_id].lastActivity = now
        /\ now - sessions[other].lastActivity = session_timeout
        /\ sessions[other].totalMessagesExchanged > 0


\* C27: in every state the engagementScore of every session lies in [0,1].
C27_EngagementInUnitInterval ==
    \A session_id \in DOMAIN sessions :
        /\ sessions[session_id].engagementScore.num >= 0
        /\ sessions[session_id].engagementScore.num
               <= sessions[session_id].engagementScore.den


\* C28: every recorded message is counted in its sender's counter: with all
\* senders "scammer" or "user", in every state scammerMessagesCount +
\* agentMessagesCount = totalMessagesExchanged for every session.
C28_CountersSum ==
    \A session_id \in DOMAIN sessions :
        sessions[session_id].scammerMessagesCount
            + sessions[session_id].agentMessagesCount
          = sessions[session_id].totalMessagesExchanged


\* what the extract_* functions find in text, whatever the order
Candidates(text) ==
    Range(extract_upi_ids(text, 0)) \cup Range(extract_phone_numbers(text, 0))
        \cup Range(extract_urls(text, 0)) \cup Range(extract_bank_accounts(text, 0))
        \cup Range(extract_card_numbers(text, 0))
        \cup Range(extract_suspicious_keywords(text, 0))

\* C29: after a fraud turn every candidate the extraction located in the
\* message, the card numbers included, is in a collection of the session's
\* intelligence.
C29_EveryCandidateMerged ==
    (call.op = "honeypot_message" /\ response.scamDetected) =>
        \A candidate \in Candidates(call.message.text) :
            \E k \in DOMAIN sessions[call.session_id].intelligence :
                candidate \in Range(sessions[call.session_id].intelligence[k])


\* the operations that start with get_session, and so with the sweep
SweepingOperations ==
    {"get_session", "update_session", "get_session_summary", "honeypot_message"}

\* C30: an operation that sweeps removes exactly the sessions idle for more
\* than 3600 s (one of them may be created anew, for the id of the call);
\* no store operation removes a session idle for 3600 s or less; the rule
\* does not look at `completed`.
C30_SweepExactlyIdle ==
    [][call'.op \in StoreOperations \cup {"honeypot_message"} =>
         \A session_id \in DOMAIN sessions :
             IF now - sessions[session_id].lastActivity <= 3600
             THEN SameSession(session_id)
             ELSE call'.op \in SweepingOperations => ~SameSession(session_id)
      ]_vars

\* a sweep has run at a time when a completed session had been idle for
\* exactly 3600 s, and that session is in the store
C30_Witness ==
    \E session_id \in DOMAIN sessions :
        /\ call.op \in SweepingOperations
        /\ call.session_id # session_id
        /\ sessions[session_id].completed
        /\ now - sessions[session_id].lastActivity = 3600


\* the threshold bucket of a confidence, in hundredths
RiskBucket(confidence) ==
    CASE confidence >= 80 -> "high"
      [] confidence \in 60..79 -> "medium"
      [] confidence \in 40..59 -> "low"
      [] confidence < 40 -> "very_low"

\* C31: in every state the riskLevel of every session is the threshold
\* bucket of its scamConfidence (>= 0.8 high, >= 0.6 medium, >= 0.4 low,
\* else very_low), from creation onward.
C31_RiskIsBucketOfConfidence ==
    \A session_id \in DOMAIN sessions :
        sessions[session_id].riskLevel
            = RiskBucket(sessions[session_id].scamConfidence)


\* C32: with every session driven through the endpoint only, in every state
\* a completed session has scamDetected, a session with a non-empty
\* intelligence collection has scamDetected, and the report a request
\* POSTs carries scamDetected = true.
C32_FlaggedWhenCompleted ==
    /\ \A session_id \in DOMAIN sessions :
           /\ sessions[session_id].completed => sessions[session_id].scamDetected
           /\ NonEmptyCollections(sessions[session_id].intelligence) > 0
                  => sessions[session_id].scamDetected
    /\ posted.sent => posted.scamDetected

\* a request has just reported a session that holds artifacts and completed it
C32_Witness ==
    /\ call.op = "honeypot_message"
    /\ posted.sent
    /\ sessions[call.session_id].completed
    /\ NonEmptyCollections(sessions[call.session_id].intelligence) > 0

====
